---------------------------- MODULE Spec2Model ----------------------------
(***************************************************************************)
(* Tado X integration: the config flow (device-code OAuth wizard), the     *)
(* config-entry setup (token refresh, scan interval, home device,          *)
(* coordinator, platform forwarding) and the number platform.              *)
(*                                                                         *)
(* Python values are encoded as follows.  None in a string-valued place is *)
(* the string "None"; None in an object-valued place is NoneObj.  A dict   *)
(* is a function whose DOMAIN is its key set, read with Get as dict.get.   *)
(* A datetime is [t |-> n]; its ISO string is [iso |-> n].                 *)
(***************************************************************************)
EXTENDS Integers, Sequences, FiniteSets, TLC

VARIABLES
    now,               \* wall clock (datetime.now())
    entries,           \* hass.config_entries: sequence of config entries
    flows_started,     \* number of config flows the host has started
    f_pc,              \* "idle": waiting for input, "polling": inside poll_for_token
    f_unique_id,       \* ConfigFlow.unique_id of the running flow
    f_reauth_entry,    \* index of the entry under reauth (0: none)
    f_api,             \* self._api
    f_device_code,     \* self._device_code
    f_homes,           \* self._homes
    f_selected_home,   \* self._selected_home
    f_result,          \* the last ConfigFlowResult of the flow
    success,           \* local `success` of the last auth handler
    f_polled,          \* poll_for_token has returned True in this flow
    poll_elapsed,      \* seconds poll_for_token has been running (0 outside it)
    yaml_config,       \* hass.data[DOMAIN].get("yaml_config")
    hass_data,         \* hass.data[DOMAIN] restricted to entry ids (NoneObj: not set)
    device_registry,   \* identifiers of the registered devices
    forwarded,         \* entry ids whose platforms are set up
    s_pc,              \* position of async_setup_entry / async_unload_entry
    s_api,             \* local `api` of async_setup_entry
    s_refreshed,       \* refresh_access_token sent a refresh request
    coordinator,       \* local `coordinator` of async_setup_entry
    n_added,           \* the number platform has called async_add_entities
    entities           \* the list the number platform gave async_add_entities

flow_vars == <<flows_started, f_pc, f_unique_id, f_reauth_entry, f_api,
               f_device_code, f_homes, f_selected_home, f_result,
               success, f_polled, poll_elapsed>>
setup_vars == <<yaml_config, hass_data, device_registry, forwarded, s_pc, s_api,
                s_refreshed, coordinator>>
number_vars == <<n_added, entities>>
vars == <<now, entries, flow_vars, setup_vars, number_vars>>

---------------------------------------------------------------------------
(* Bounds *)
MaxHome == 2
MaxFlows == 2
MaxTime == 2
MaxSerial == 2

---------------------------------------------------------------------------
(* Python values *)
None == "None"
NoneObj == [none |-> TRUE]

Get(d, k, default) == IF k \in DOMAIN d THEN d[k] ELSE default

Update(d, k, v) == [x \in DOMAIN d \cup {k} |-> IF x = k THEN v ELSE d[x]]

(* datetime.isoformat and datetime.fromisoformat *)
isoformat(dt) == [iso |-> dt.t]

IsIsoString(s) == DOMAIN s = {"iso"}

fromisoformat(s) == [t |-> s.iso]

---------------------------------------------------------------------------
(* The vendor API object (TadoXApi) *)
POLL_INTERVAL == 3
POLL_TIMEOUT == 120
TOKEN_LIFETIME == 1

TadoXApi(access_token, refresh_token, token_expiry) ==
    [access_token |-> access_token, refresh_token |-> refresh_token,
     token_expiry |-> token_expiry]

(* the token set the vendor issues on a granted device code or refresh: a new
   one for each time of issue *)
IssuedTokens ==
    {TadoXApi("access_" \o ToString(now + 1), "refresh_" \o ToString(now + 1),
              [t |-> now + TOKEN_LIFETIME])}

Home(h) == [id |-> h, name |-> "Home " \o ToString(h)]

RECURSIVE Distinct(_)
Distinct(s) ==
    IF Len(s) <= 1 THEN TRUE
    ELSE /\ \A i \in 2..Len(s) : s[i] # s[1]
         /\ Distinct(Tail(s))

(* the lists get_homes can return *)
HomeLists ==
    {<<>>} \cup
    UNION {{s \in [1..n -> {Home(h) : h \in 1..MaxHome}] : Distinct(s)} : n \in 1..MaxHome}


---------------------------------------------------------------------------
(* Config flow results (homeassistant.config_entries.ConfigFlow) *)
NoErrors == [k \in {} |-> None]

async_show_form(step_id, errors) ==
    [type |-> "form", step_id |-> step_id, errors |-> errors, reason |-> None]

async_abort(reason) ==
    [type |-> "abort", step_id |-> None, errors |-> NoErrors, reason |-> reason]

CreateEntryResult ==
    [type |-> "create_entry", step_id |-> None, errors |-> NoErrors, reason |-> None]

NoResult == [type |-> "none", step_id |-> None, errors |-> NoErrors, reason |-> None]

(* the flow manager hands user input to the step whose form is showing *)
Showing(step_id) ==
    /\ f_pc = "idle"
    /\ f_result.type = "form"
    /\ f_result.step_id = step_id

FlowOver == f_result.type \in {"none", "abort", "create_entry"}

ScanIntervals == {30, 300, 3600}

(* a flow that ended (create_entry, abort) is dropped by the flow manager,
   and its attributes with it *)
FlowDiscarded ==
    /\ f_unique_id' = None
    /\ f_reauth_entry' = 0
    /\ f_api' = NoneObj
    /\ f_device_code' = None
    /\ f_homes' = <<>>
    /\ f_selected_home' = NoneObj
    /\ success' = "unset"
    /\ f_polled' = FALSE

---------------------------------------------------------------------------
(* TadoXConfigFlow *)

(* __init__ followed by async_step_user(None): a new flow from the user *)
flow_init_user ==
    /\ FlowOver
    /\ flows_started < MaxFlows
    /\ flows_started' = flows_started + 1
    /\ f_pc' = "idle"
    /\ f_unique_id' = None
    /\ f_reauth_entry' = 0
    /\ f_api' = NoneObj
    /\ f_device_code' = None
    /\ f_homes' = <<>>
    /\ f_selected_home' = NoneObj
    /\ f_result' = async_show_form("user", NoErrors)
    /\ success' = "unset"
    /\ f_polled' = FALSE
    /\ poll_elapsed' = 0
    /\ UNCHANGED <<now, entries, setup_vars, number_vars>>

(* async_step_user(user_input): start the device authorization *)
async_step_user ==
    /\ Showing("user")
    /\ f_api' = TadoXApi(None, None, NoneObj)
    /\ \E outcome \in {"ok", "TadoXAuthError", "ClientError"} :
          \/ /\ outcome = "ok"
             /\ f_device_code' = "device_code"
             /\ f_result' = async_show_form("auth", NoErrors)
          \/ /\ outcome = "TadoXAuthError"
             /\ f_result' = async_show_form("user", [base |-> "auth_error"])
             /\ UNCHANGED f_device_code
          \/ /\ outcome = "ClientError"
             /\ f_result' = async_show_form("user", [base |-> "cannot_connect"])
             /\ UNCHANGED f_device_code
    /\ UNCHANGED <<now, entries, flows_started, f_pc, f_unique_id, f_reauth_entry,
                   f_homes, f_selected_home, success, f_polled, poll_elapsed,
                   setup_vars, number_vars>>

(* async_step_auth / async_step_reauth_auth (user_input): up to the await of
   poll_for_token *)
auth_submit(step_id) ==
    /\ Showing(step_id)
    /\ IF f_api # NoneObj /\ f_device_code # None
       THEN /\ f_pc' = "polling"
            /\ poll_elapsed' = 0
            /\ success' = "unset"
            /\ UNCHANGED f_result
       ELSE /\ f_result' = async_show_form(step_id, NoErrors)
            /\ UNCHANGED <<f_pc, poll_elapsed, success>>
    /\ UNCHANGED <<now, entries, flows_started, f_unique_id, f_reauth_entry, f_api,
                   f_device_code, f_homes, f_selected_home, f_polled,
                   setup_vars, number_vars>>

async_step_auth_submit == auth_submit("auth")

async_step_reauth_auth_submit == auth_submit("reauth_auth")

(* poll_for_token(device_code, interval, timeout): one iteration that finds the
   authorization still pending and sleeps `interval` *)
poll_for_token_pending ==
    /\ f_pc = "polling"
    /\ poll_elapsed < POLL_TIMEOUT
    /\ poll_elapsed' = poll_elapsed + POLL_INTERVAL
    /\ UNCHANGED <<now, entries, flows_started, f_pc, f_unique_id, f_reauth_entry,
                   f_api, f_device_code, f_homes, f_selected_home, f_result,
                   success, f_polled, setup_vars, number_vars>>

(* what poll_for_token can return now *)
poll_for_token_returns ==
    IF poll_elapsed < POLL_TIMEOUT THEN {"True", "TadoXAuthError"} ELSE {"False"}

Polling(step_id) ==
    /\ f_pc = "polling"
    /\ f_result.step_id = step_id

(* faulty variant: the first home is taken whenever there is one (>= 1 for == 1) *)
async_step_auth_success_first_home ==
    /\ Polling("auth")
    /\ "True" \in poll_for_token_returns
    /\ f_pc' = "idle"
    /\ success' = "true"
    /\ f_polled' = TRUE
    /\ f_api' \in IssuedTokens
    /\ \/ \E homes \in HomeLists :
             /\ f_homes' = homes
             /\ IF Len(homes) >= 1
                THEN /\ f_selected_home' = homes[1]
                     /\ f_result' = async_show_form("configure", NoErrors)
                ELSE /\ f_result' = async_show_form("auth", [base |-> "no_homes"])
                     /\ UNCHANGED f_selected_home
       \/ /\ f_result' = async_show_form("auth", [base |-> "auth_error"])
          /\ UNCHANGED <<f_homes, f_selected_home>>
    /\ poll_elapsed' = 0
    /\ UNCHANGED <<now, entries, flows_started, f_unique_id, f_reauth_entry,
                   f_device_code, setup_vars, number_vars>>

(* async_step_auth: poll_for_token returned True, then get_homes *)
async_step_auth_success ==
    /\ Polling("auth")
    /\ "True" \in poll_for_token_returns
    /\ f_pc' = "idle"
    /\ success' = "true"
    /\ f_polled' = TRUE
    /\ f_api' \in IssuedTokens
    /\ \/ \E homes \in HomeLists :
             /\ f_homes' = homes
             /\ IF Len(homes) = 1
                THEN /\ f_selected_home' = homes[1]
                     /\ f_result' = async_show_form("configure", NoErrors)
                ELSE IF Len(homes) > 1
                THEN /\ f_result' = async_show_form("select_home", NoErrors)
                     /\ UNCHANGED f_selected_home
                ELSE /\ f_result' = async_show_form("auth", [base |-> "no_homes"])
                     /\ UNCHANGED f_selected_home
       \/ /\ f_result' = async_show_form("auth", [base |-> "auth_error"])
          /\ UNCHANGED <<f_homes, f_selected_home>>
    /\ poll_elapsed' = 0
    /\ UNCHANGED <<now, entries, flows_started, f_unique_id, f_reauth_entry,
                   f_device_code, setup_vars, number_vars>>

(* faulty variant: a False from poll_for_token starts the poll again *)
auth_timeout_retry(step_id) ==
    /\ Polling(step_id)
    /\ "False" \in poll_for_token_returns
    /\ poll_elapsed' = 0
    /\ UNCHANGED <<now, entries, flows_started, f_pc, f_unique_id, f_reauth_entry,
                   f_api, f_device_code, f_homes, f_selected_home, f_result,
                   success, f_polled, setup_vars, number_vars>>

(* async_step_auth / async_step_reauth_auth: poll_for_token returned False *)
auth_timeout(step_id) ==
    /\ Polling(step_id)
    /\ "False" \in poll_for_token_returns
    /\ f_pc' = "idle"
    /\ success' = "false"
    /\ f_result' = async_show_form(step_id, [base |-> "auth_timeout"])
    /\ poll_elapsed' = 0
    /\ UNCHANGED <<now, entries, flows_started, f_unique_id, f_reauth_entry, f_api,
                   f_device_code, f_homes, f_selected_home, f_polled,
                   setup_vars, number_vars>>

(* async_step_auth / async_step_reauth_auth: poll_for_token raised TadoXAuthError *)
auth_error(step_id) ==
    /\ Polling(step_id)
    /\ "TadoXAuthError" \in poll_for_token_returns
    /\ f_pc' = "idle"
    /\ f_result' = async_show_form(step_id, [base |-> "auth_error"])
    /\ poll_elapsed' = 0
    /\ UNCHANGED <<now, entries, flows_started, f_unique_id, f_reauth_entry, f_api,
                   f_device_code, f_homes, f_selected_home, success, f_polled,
                   setup_vars, number_vars>>

async_step_auth_timeout == auth_timeout("auth")

async_step_auth_error == auth_error("auth")

async_step_reauth_auth_timeout == auth_timeout("reauth_auth")

async_step_reauth_auth_error == auth_error("reauth_auth")

(* async_step_select_home(user_input) *)
RECURSIVE FindHome(_, _)
FindHome(homes, home_id) ==
    IF homes = <<>> THEN NoneObj
    ELSE IF Head(homes).id = home_id THEN Head(homes)
    ELSE FindHome(Tail(homes), home_id)

(* faulty variant: the submitted id is taken without looking it up in self._homes *)
async_step_select_home_unchecked ==
    /\ Showing("select_home")
    /\ \E home_id \in 0..MaxHome :
          /\ f_selected_home' = Home(home_id)
          /\ f_result' = async_show_form("configure", NoErrors)
    /\ UNCHANGED <<now, entries, flows_started, f_pc, f_unique_id, f_reauth_entry,
                   f_api, f_device_code, f_homes, success, f_polled, poll_elapsed,
                   setup_vars, number_vars>>

async_step_select_home ==
    /\ Showing("select_home")
    /\ \E home_id \in 0..MaxHome :
          LET home == FindHome(f_homes, home_id) IN
          IF home # NoneObj
          THEN /\ f_selected_home' = home
               /\ f_result' = async_show_form("configure", NoErrors)
          ELSE /\ f_result' = async_show_form("select_home", NoErrors)
               /\ UNCHANGED f_selected_home
    /\ UNCHANGED <<now, entries, flows_started, f_pc, f_unique_id, f_reauth_entry,
                   f_api, f_device_code, f_homes, success, f_polled, poll_elapsed,
                   setup_vars, number_vars>>

(* the config entry the host makes of async_create_entry(title, data): its
   unique_id is the flow's *)
ConfigEntry(n, unique_id, data) ==
    [entry_id |-> "entry_" \o ToString(n), unique_id |-> unique_id, data |-> data]

await_unique_id(home) == "tado_x_" \o ToString(home.id)

AlreadyConfigured(home) ==
    \E i \in 1..Len(entries) : entries[i].unique_id = await_unique_id(home)

EntryData(home, api, scan_interval) ==
    [home_id |-> home.id,
     home_name |-> home.name,
     access_token |-> api.access_token,
     refresh_token |-> api.refresh_token,
     token_expiry |-> IF api.token_expiry # NoneObj
                      THEN isoformat(api.token_expiry) ELSE NoneObj,
     scan_interval |-> scan_interval]

(* _create_entry(home, scan_interval, ...) *)
create_entry(home, scan_interval) ==
    IF f_api = NoneObj
    THEN /\ f_result' = async_abort("unknown")
         /\ UNCHANGED entries
    ELSE IF AlreadyConfigured(home)
    THEN /\ f_result' = async_abort("already_configured")
         /\ UNCHANGED entries
    ELSE /\ f_result' = CreateEntryResult
         /\ entries' = Append(entries,
                ConfigEntry(Len(entries) + 1, f_unique_id,
                            EntryData(home, f_api, scan_interval)))

(* async_step_configure(user_input); _create_entry ends the flow *)
async_step_configure ==
    /\ Showing("configure")
    /\ \E scan_interval \in ScanIntervals :
          create_entry(f_selected_home, scan_interval)
    /\ FlowDiscarded
    /\ UNCHANGED <<now, flows_started, f_pc, poll_elapsed, setup_vars, number_vars>>

(* __init__ followed by async_step_reauth(entry_data): the host starts a
   reauth flow for an entry *)
async_step_reauth ==
    /\ FlowOver
    /\ flows_started < MaxFlows
    /\ \E i \in 1..Len(entries) : f_reauth_entry' = i
    /\ flows_started' = flows_started + 1
    /\ f_pc' = "idle"
    /\ f_unique_id' = None
    /\ f_api' = NoneObj
    /\ f_device_code' = None
    /\ f_homes' = <<>>
    /\ f_selected_home' = NoneObj
    /\ f_result' = async_show_form("reauth_confirm", NoErrors)
    /\ success' = "unset"
    /\ f_polled' = FALSE
    /\ poll_elapsed' = 0
    /\ UNCHANGED <<now, entries, setup_vars, number_vars>>

(* async_step_reauth_confirm(user_input); a ClientError is not caught and
   leaves the form as it is *)
async_step_reauth_confirm ==
    /\ Showing("reauth_confirm")
    /\ f_api' = TadoXApi(None, None, NoneObj)
    /\ \E outcome \in {"ok", "TadoXAuthError", "ClientError"} :
          \/ /\ outcome = "ok"
             /\ f_device_code' = "device_code"
             /\ f_result' = async_show_form("reauth_auth", NoErrors)
          \/ /\ outcome = "TadoXAuthError"
             /\ f_result' = async_show_form("reauth_confirm", [base |-> "auth_error"])
             /\ UNCHANGED f_device_code
          \/ /\ outcome = "ClientError"
             /\ UNCHANGED <<f_result, f_device_code>>
    /\ UNCHANGED <<now, entries, flows_started, f_pc, f_unique_id, f_reauth_entry,
                   f_homes, f_selected_home, success, f_polled, poll_elapsed,
                   setup_vars, number_vars>>

(* async_step_reauth_auth: poll_for_token returned True; the entry is
   updated and the flow ends *)
async_step_reauth_auth_success ==
    /\ Polling("reauth_auth")
    /\ "True" \in poll_for_token_returns
    /\ f_pc' = "idle"
    /\ \E api \in IssuedTokens :
          /\ entries' = [entries EXCEPT ![f_reauth_entry].data =
                [@ EXCEPT !.access_token = api.access_token,
                          !.refresh_token = api.refresh_token,
                          !.token_expiry = IF api.token_expiry # NoneObj
                                           THEN isoformat(api.token_expiry)
                                           ELSE NoneObj]]
    /\ f_result' = async_abort("reauth_successful")
    /\ poll_elapsed' = 0
    /\ FlowDiscarded
    /\ UNCHANGED <<now, flows_started, setup_vars, number_vars>>

---------------------------------------------------------------------------
(* The config flow on its own: flows run one after another, from a host
   that holds no entry *)
IdleSetup ==
    /\ yaml_config = NoneObj
    /\ hass_data = NoneObj
    /\ device_registry = {}
    /\ forwarded = {}
    /\ s_pc = "idle"
    /\ s_api = NoneObj
    /\ s_refreshed = FALSE
    /\ coordinator = NoneObj

IdleNumber ==
    /\ n_added = FALSE
    /\ entities = <<>>

IdleFlow ==
    /\ flows_started = 0
    /\ f_pc = "idle"
    /\ f_unique_id = None
    /\ f_reauth_entry = 0
    /\ f_api = NoneObj
    /\ f_device_code = None
    /\ f_homes = <<>>
    /\ f_selected_home = NoneObj
    /\ f_result = NoResult
    /\ success = "unset"
    /\ f_polled = FALSE
    /\ poll_elapsed = 0

InitFlow ==
    /\ now = 0
    /\ entries = <<>>
    /\ IdleFlow
    /\ IdleSetup
    /\ IdleNumber

PollStep ==
    \/ poll_for_token_pending
    \/ async_step_auth_success
    \/ async_step_auth_timeout
    \/ async_step_auth_error
    \/ async_step_reauth_auth_success
    \/ async_step_reauth_auth_timeout
    \/ async_step_reauth_auth_error

NextFlow ==
    \/ flow_init_user
    \/ async_step_user
    \/ async_step_auth_submit
    \/ async_step_select_home
    \/ async_step_configure
    \/ async_step_reauth
    \/ async_step_reauth_confirm
    \/ async_step_reauth_auth_submit
    \/ PollStep

SpecFlow == InitFlow /\ [][NextFlow]_vars

(* the event loop runs a coroutine that is inside poll_for_token *)
FairSpecFlow == SpecFlow /\ WF_vars(PollStep)

---------------------------------------------------------------------------
(* Properties of the config flow *)

Range(f) == {f[x] : x \in DOMAIN f}

(* C1: every submission of the auth step (async_step_auth or
   async_step_reauth_auth) terminates: the poll it starts never runs past
   its timeout, a flow inside the poll always leaves it, and when the poll
   ends the step either advances (configure, select_home, the reauth update)
   or shows its own form again. *)
C1_AuthStepTerminates ==
    /\ [](poll_elapsed <= POLL_TIMEOUT)
    /\ (f_pc = "polling") ~> (f_pc = "idle")
    /\ [][(f_pc = "polling" /\ f_pc' = "idle") =>
            \/ f_result' = async_show_form("configure", NoErrors)
            \/ f_result' = async_show_form("select_home", NoErrors)
            \/ f_result' = async_abort("reauth_successful")
            \/ /\ f_result'.type = "form"
               /\ f_result'.step_id = f_result.step_id]_vars

(* a poll that ran to its timeout and ended with the auth form shown again *)
C1_Witness ==
    /\ f_pc = "idle"
    /\ success = "false"
    /\ f_result = async_show_form("auth", [base |-> "auth_timeout"])

(* C3: at most one config entry per home id ever exists: _create_entry for a
   home that already has an entry aborts with already_configured. *)
C3_OneEntryPerHome ==
    \A i, j \in 1..Len(entries) :
        i # j => entries[i].data.home_id # entries[j].data.home_id

(* C8: a flow reaches async_create_entry only after poll_for_token returned
   True in that flow, and the home written to the entry is _selected_home,
   an element of the list get_homes returned in that flow. *)
C8_EntryOnlyAfterAuth ==
    [][(f_result.type = "form" /\ f_result'.type = "create_entry") =>
          /\ f_polled
          /\ f_selected_home \in Range(f_homes)
          /\ Len(entries') = Len(entries) + 1
          /\ entries'[Len(entries')].data.home_id = f_selected_home.id]_vars

(* a flow that created the entry of the second home *)
C8_Witness ==
    /\ f_result.type = "create_entry"
    /\ entries # <<>>
    /\ entries[Len(entries)].data.home_id = 2

(* C9: after a successful token poll in async_step_auth the number of homes
   get_homes returned decides the next step: one home selects it and shows
   configure; more than one shows select_home with no home selected; none
   shows the auth form with error no_homes and creates no entry. *)
C9_NextStepByHomeCount ==
    [][(/\ Polling("auth")
        /\ success' = "true"
        /\ f_result'.errors # [base |-> "auth_error"]) =>
          IF Len(f_homes') = 1
          THEN /\ f_selected_home' = f_homes'[1]
               /\ f_result' = async_show_form("configure", NoErrors)
          ELSE IF Len(f_homes') > 1
          THEN /\ f_selected_home' = NoneObj
               /\ f_result' = async_show_form("select_home", NoErrors)
          ELSE /\ f_result' = async_show_form("auth", [base |-> "no_homes"])
               /\ entries' = entries]_vars

(* a successful poll that found several homes and left none selected *)
C9_Witness ==
    /\ success = "true"
    /\ Len(f_homes) > 1
    /\ f_selected_home = NoneObj
    /\ f_result = async_show_form("select_home", NoErrors)

---------------------------------------------------------------------------
(* Component and config-entry setup (__init__.py) *)
DEFAULT_SCAN_INTERVAL == 300

EmptyDict == [k \in {} |-> NoneObj]

(* CONFIG_SCHEMA applied to the YAML section of the domain: a missing
   scan_interval is filled with the default *)
CONFIG_SCHEMA(section) ==
    IF "scan_interval" \in DOMAIN section
    THEN section
    ELSE Update(section, "scan_interval", DEFAULT_SCAN_INTERVAL)

(* the YAML sections a user can write: none (NoneObj), an empty one, or one
   that sets scan_interval *)
YamlSections ==
    {NoneObj, EmptyDict} \cup {[scan_interval |-> v] : v \in ScanIntervals}

(* async_setup(hass, config) *)
async_setup ==
    /\ hass_data = NoneObj
    /\ hass_data' = EmptyDict
    /\ \E section \in YamlSections :
          yaml_config' = IF section # NoneObj THEN CONFIG_SCHEMA(section) ELSE NoneObj
    /\ UNCHANGED <<now, entries, flow_vars, device_registry, forwarded, s_pc, s_api,
                   s_refreshed, coordinator, number_vars>>

(* faulty variant: the stored expiry is never parsed *)
ParseTokenExpiry_dropped(data) == NoneObj

(* token_expiry of async_setup_entry: the stored ISO string parsed, None when
   it is missing, empty or not an ISO string *)
ParseTokenExpiry(data) ==
    LET stored == Get(data, "token_expiry", NoneObj) IN
    IF stored # NoneObj /\ IsIsoString(stored) THEN fromisoformat(stored) ELSE NoneObj

(* async_setup_entry up to the await of refresh_access_token *)
async_setup_entry_begin ==
    /\ hass_data # NoneObj
    /\ s_pc \in {"idle", "reloading", "auth_failed", "not_ready"}
    /\ s_api' = TadoXApi(Get(entries[1].data, "access_token", None),
                         Get(entries[1].data, "refresh_token", None),
                         ParseTokenExpiry(entries[1].data))
    /\ s_refreshed' = FALSE
    /\ coordinator' = NoneObj
    /\ s_pc' = "refresh"
    /\ UNCHANGED <<now, entries, flow_vars, yaml_config, hass_data, device_registry,
                   forwarded, number_vars>>

(* refresh_access_token: the token is refreshed when it is expired or its
   expiry is unknown *)
NeedsRefresh(api) ==
    IF api.token_expiry = NoneObj THEN TRUE ELSE now >= api.token_expiry.t

(* what refresh_access_token can leave in the api object when it returns *)
refresh_access_token(api) ==
    IF NeedsRefresh(api) THEN IssuedTokens ELSE {api}

(* faulty variant: the entry's own value comes before the YAML value *)
ScanInterval_entry_first(yaml, data) ==
    Get(data, "scan_interval",
        Get(IF yaml # NoneObj THEN yaml ELSE EmptyDict, "scan_interval",
            DEFAULT_SCAN_INTERVAL))

(* scan_interval of async_setup_entry *)
ScanInterval(yaml, data) ==
    Get(IF yaml # NoneObj THEN yaml ELSE EmptyDict, "scan_interval",
        Get(data, "scan_interval", DEFAULT_SCAN_INTERVAL))

HomeIdentifier(home_id) == <<"tado_x", ToString(home_id)>>

TadoXDataUpdateCoordinator(api, home_id, scan_interval) ==
    [api |-> api, home_id |-> home_id, scan_interval |-> scan_interval,
     data |-> NoneObj]

StoreTokens(data, api) ==
    [k \in DOMAIN data \cup {"access_token", "refresh_token", "token_expiry"} |->
        IF k = "access_token" THEN api.access_token
        ELSE IF k = "refresh_token" THEN api.refresh_token
        ELSE IF k = "token_expiry"
        THEN (IF api.token_expiry # NoneObj THEN isoformat(api.token_expiry)
              ELSE NoneObj)
        ELSE data[k]]

(* faulty variant: the home device is not registered *)
async_setup_entry_refreshed_no_device ==
    /\ s_pc = "refresh"
    /\ \E api \in refresh_access_token(s_api) :
          /\ s_api' = api
          /\ s_refreshed' = (NeedsRefresh(s_api))
          /\ entries' = [entries EXCEPT ![1].data = StoreTokens(@, api)]
          /\ coordinator' = TadoXDataUpdateCoordinator(api, entries[1].data.home_id,
                                ScanInterval(yaml_config, entries[1].data))
    /\ s_pc' = "first_refresh"
    /\ UNCHANGED <<now, flow_vars, yaml_config, hass_data, device_registry, forwarded,
                   number_vars>>

(* async_setup_entry: refresh_access_token returned; the tokens are stored,
   the scan interval is chosen, the home device is registered and the
   coordinator is made, up to the await of the first refresh *)
async_setup_entry_refreshed ==
    /\ s_pc = "refresh"
    /\ \E api \in refresh_access_token(s_api) :
          /\ s_api' = api
          /\ s_refreshed' = (NeedsRefresh(s_api))
          /\ entries' = [entries EXCEPT ![1].data = StoreTokens(@, api)]
          /\ coordinator' = TadoXDataUpdateCoordinator(api, entries[1].data.home_id,
                                ScanInterval(yaml_config, entries[1].data))
    /\ device_registry' =
          device_registry \cup {HomeIdentifier(entries[1].data.home_id)}
    /\ s_pc' = "first_refresh"
    /\ UNCHANGED <<now, flow_vars, yaml_config, hass_data, forwarded, number_vars>>

(* faulty variant: the tokens are written back before the error is raised *)
async_setup_entry_auth_failed_stores ==
    /\ s_pc = "refresh"
    /\ NeedsRefresh(s_api)
    /\ s_refreshed' = TRUE
    /\ entries' = [entries EXCEPT ![1].data = StoreTokens(@, TadoXApi(None, None, NoneObj))]
    /\ s_pc' = "auth_failed"
    /\ UNCHANGED <<now, flow_vars, yaml_config, hass_data, device_registry,
                   forwarded, s_api, coordinator, number_vars>>

(* async_setup_entry: refresh_access_token raised TadoXAuthError, setup
   raises ConfigEntryAuthFailed *)
async_setup_entry_auth_failed ==
    /\ s_pc = "refresh"
    /\ NeedsRefresh(s_api)
    /\ s_refreshed' = TRUE
    /\ s_pc' = "auth_failed"
    /\ UNCHANGED <<now, entries, flow_vars, yaml_config, hass_data, device_registry,
                   forwarded, s_api, coordinator, number_vars>>

(* async_setup_entry: the first refresh succeeded; the coordinator is stored,
   up to the await of async_forward_entry_setups *)
async_setup_entry_first_refresh ==
    /\ s_pc = "first_refresh"
    /\ coordinator' = [coordinator EXCEPT !.data = [devices |-> <<>>]]
    /\ hass_data' = Update(hass_data, entries[1].entry_id, coordinator')
    /\ s_pc' = "forward"
    /\ UNCHANGED <<now, entries, flow_vars, yaml_config, device_registry, forwarded,
                   s_api, s_refreshed, number_vars>>

(* async_setup_entry: the first refresh raised TadoXApiError, setup raises
   ConfigEntryNotReady *)
async_setup_entry_not_ready ==
    /\ s_pc = "first_refresh"
    /\ s_pc' = "not_ready"
    /\ UNCHANGED <<now, entries, flow_vars, yaml_config, hass_data, device_registry,
                   forwarded, s_api, s_refreshed, coordinator, number_vars>>

(* async_setup_entry: async_forward_entry_setups ran the platforms' setup,
   which read hass.data[DOMAIN][entry.entry_id] *)
async_setup_entry_forward ==
    /\ s_pc = "forward"
    /\ entries[1].entry_id \in DOMAIN hass_data
    /\ forwarded' = forwarded \cup {entries[1].entry_id}
    /\ s_pc' = "loaded"
    /\ UNCHANGED <<now, entries, flow_vars, yaml_config, hass_data, device_registry,
                   s_api, s_refreshed, coordinator, number_vars>>

Pop(d, k) == [x \in DOMAIN d \ {k} |-> d[x]]

(* async_unload_entry, then what follows it (next_pc) *)
unload_entry(next_pc) ==
    /\ s_pc = "loaded"
    /\ \E unload_ok \in BOOLEAN :
          IF unload_ok
          THEN /\ forwarded' = forwarded \ {entries[1].entry_id}
               /\ hass_data' = Pop(hass_data, entries[1].entry_id)
          ELSE UNCHANGED <<forwarded, hass_data>>
    /\ s_pc' = next_pc
    /\ UNCHANGED <<now, entries, flow_vars, yaml_config, device_registry,
                   s_api, s_refreshed, coordinator, number_vars>>

async_unload_entry == unload_entry("idle")

(* async_reload_entry: the unload, whatever it returned, then the setup *)
async_reload_entry == unload_entry("reloading")

(* time passes *)
Tick ==
    /\ now < MaxTime
    /\ now' = now + 1
    /\ UNCHANGED <<entries, flow_vars, setup_vars, number_vars>>

(* the entries a host can hold for this integration: made by the flow, or by
   an earlier version that stored no scan interval; the expiry may be
   missing or unreadable *)
StoredExpiries ==
    {NoneObj, [text |-> "not a date"]} \cup {isoformat([t |-> x]) : x \in 0..MaxTime}

StoredData ==
    LET with == {EntryData(Home(h), TadoXApi("access_0", "refresh_0", NoneObj), v) :
                    h \in 1..MaxHome, v \in ScanIntervals}
        without == {[k \in DOMAIN d \ {"scan_interval"} |-> d[k]] : d \in with}
    IN {[d EXCEPT !.token_expiry = x] : d \in with \cup without, x \in StoredExpiries}

InitSetup ==
    /\ now = 0
    /\ \E d \in StoredData : entries = <<ConfigEntry(1, None, d)>>
    /\ IdleFlow
    /\ IdleSetup
    /\ IdleNumber

NextSetup ==
    \/ async_setup
    \/ async_setup_entry_begin
    \/ async_setup_entry_refreshed
    \/ async_setup_entry_auth_failed
    \/ async_setup_entry_first_refresh
    \/ async_setup_entry_not_ready
    \/ async_setup_entry_forward
    \/ async_unload_entry
    \/ async_reload_entry
    \/ Tick

SpecSetup == InitSetup /\ [][NextSetup]_vars

---------------------------------------------------------------------------
(* Properties of the config-entry setup *)

(* the stored expiry reads as a time that lies in the future *)
StoredExpiryInFuture(data) ==
    LET stored == Get(data, "token_expiry", NoneObj) IN
    IF IsIsoString(stored) THEN stored.iso > now ELSE FALSE

(* C2: when refresh_access_token returns during async_setup_entry and the
   stored token expiry lies in the future, no refresh was performed and the
   stored access token is kept, in the api object and in the entry; a
   refresh is performed only when the token is expired or its expiry is
   unknown. *)
C2_RefreshOnlyIfNeeded ==
    [][(s_pc = "refresh" /\ s_pc' # "refresh") =>
          /\ StoredExpiryInFuture(entries[1].data) =>
                /\ ~s_refreshed'
                /\ s_pc' = "first_refresh"
                /\ s_api'.access_token = entries[1].data.access_token
                /\ entries'[1].data.access_token = entries[1].data.access_token
          /\ s_refreshed' => ~StoredExpiryInFuture(entries[1].data)]_vars

(* a setup that went past refresh_access_token without a refresh *)
C2_Witness ==
    /\ s_pc = "first_refresh"
    /\ ~s_refreshed
    /\ s_api.access_token = "access_0"
    /\ entries[1].data.access_token = "access_0"

(* C4: the scan interval handed to the coordinator is the YAML value
   async_setup stored in hass.data if there is one, otherwise the value
   stored in the config entry, otherwise DEFAULT_SCAN_INTERVAL. *)
C4_ScanIntervalPrecedence ==
    coordinator # NoneObj =>
        coordinator.scan_interval =
            IF yaml_config # NoneObj
            THEN (IF "scan_interval" \in DOMAIN yaml_config
                  THEN yaml_config.scan_interval
                  ELSE IF "scan_interval" \in DOMAIN entries[1].data
                  THEN entries[1].data.scan_interval
                  ELSE DEFAULT_SCAN_INTERVAL)
            ELSE IF "scan_interval" \in DOMAIN entries[1].data
            THEN entries[1].data.scan_interval
            ELSE DEFAULT_SCAN_INTERVAL

(* a coordinator made where the YAML value and the entry's value differ *)
C4_Witness ==
    /\ coordinator # NoneObj
    /\ yaml_config # NoneObj
    /\ "scan_interval" \in DOMAIN entries[1].data
    /\ yaml_config.scan_interval # entries[1].data.scan_interval

(* C5: the platforms of an entry are forwarded only when the home device
   (DOMAIN, str(home_id)) is already in the device registry, the
   coordinator's first refresh has succeeded and the coordinator is stored
   under hass.data[DOMAIN][entry_id]; while the platforms are set up, the home
   device and the stored coordinator exist. *)
C5_DeviceBeforePlatforms ==
    /\ [](entries[1].entry_id \in forwarded =>
            /\ HomeIdentifier(entries[1].data.home_id) \in device_registry
            /\ entries[1].entry_id \in DOMAIN hass_data)
    /\ [][(entries[1].entry_id \notin forwarded /\ entries[1].entry_id \in forwarded') =>
            /\ HomeIdentifier(entries[1].data.home_id) \in device_registry
            /\ entries[1].entry_id \in DOMAIN hass_data
            /\ hass_data[entries[1].entry_id].data # NoneObj]_vars

(* an entry whose platforms are set up *)
C5_Witness ==
    /\ s_pc = "loaded"
    /\ entries[1].entry_id \in forwarded

(* C7: a setup in which refresh_access_token raises TadoXAuthError ends by
   raising ConfigEntryAuthFailed and none of its steps changes the entry's
   stored data, the device registry, hass.data[DOMAIN] or the forwarded
   platforms; it ends with no coordinator made. *)
C7_AuthFailureChangesNothing ==
    [][(\/ s_pc' = "auth_failed"
        \/ (s_pc # "refresh" /\ s_pc' = "refresh")) =>
          /\ UNCHANGED <<entries, device_registry, hass_data, forwarded>>
          /\ s_pc' = "auth_failed" => coordinator' = NoneObj]_vars

(* a setup that ended in ConfigEntryAuthFailed *)
C7_Witness ==
    /\ s_pc = "auth_failed"
    /\ s_refreshed

---------------------------------------------------------------------------
(* The number platform (number.py) *)
DeviceTypes == {"VA04", "SU04", "TR04", "IB02", "RU02"}

TadoXDevice(n, device_type) ==
    [serial_number |-> "SN" \o ToString(n), device_type |-> device_type]

(* coordinator.data.devices: a dict keyed by serial number, as the list of
   its values in dict order *)
DeviceLists ==
    {<<>>} \cup
    UNION {{d \in [1..n -> {TadoXDevice(i, t) : i \in 1..MaxSerial, t \in DeviceTypes}] :
              \A i, j \in 1..n : i # j => d[i].serial_number # d[j].serial_number} :
           n \in 1..MaxSerial}

TadoXTemperatureOffset(coord, device_serial) ==
    [device_serial |-> device_serial,
     unique_id |-> ToString(coord.home_id) \o "_" \o device_serial
                   \o "_temperature_offset"]

(* faulty variant: thermostats get an offset entity too *)
RECURSIVE OffsetEntities_with_thermostats(_, _)
OffsetEntities_with_thermostats(coord, devices) ==
    IF devices = <<>> THEN <<>>
    ELSE LET device == Head(devices)
             rest == OffsetEntities_with_thermostats(coord, Tail(devices))
         IN IF device.device_type \in {"VA04", "SU04", "TR04"}
            THEN <<TadoXTemperatureOffset(coord, device.serial_number)>> \o rest
            ELSE rest

(* the loop of async_setup_entry over coordinator.data.devices.values() *)
RECURSIVE OffsetEntities(_, _)
OffsetEntities(coord, devices) ==
    IF devices = <<>> THEN <<>>
    ELSE LET device == Head(devices)
             rest == OffsetEntities(coord, Tail(devices))
         IN IF device.device_type \in {"VA04", "SU04"}
            THEN <<TadoXTemperatureOffset(coord, device.serial_number)>> \o rest
            ELSE rest

(* async_setup_entry(hass, entry, async_add_entities) of the number platform *)
number_async_setup_entry ==
    /\ s_pc = "forward"
    /\ ~n_added
    /\ LET coord == hass_data[entries[1].entry_id] IN
          entities' = OffsetEntities(coord, coord.data.devices)
    /\ n_added' = TRUE
    /\ UNCHANGED <<now, entries, flow_vars, setup_vars>>

(* a host in which the setup of an entry has stored its coordinator and is
   forwarding the platforms *)
InitNumber ==
    /\ now = 0
    /\ IdleFlow
    /\ \E h \in 1..MaxHome, devices \in DeviceLists :
          /\ entries = <<ConfigEntry(1, None,
                EntryData(Home(h), TadoXApi("access_0", "refresh_0", NoneObj),
                          DEFAULT_SCAN_INTERVAL))>>
          /\ s_api = TadoXApi("access_1", "refresh_1", [t |-> TOKEN_LIFETIME])
          /\ coordinator =
                [TadoXDataUpdateCoordinator(s_api, h, DEFAULT_SCAN_INTERVAL)
                    EXCEPT !.data = [devices |-> devices]]
          /\ device_registry = {HomeIdentifier(h)}
    /\ yaml_config = NoneObj
    /\ hass_data = Update(EmptyDict, entries[1].entry_id, coordinator)
    /\ forwarded = {}
    /\ s_pc = "forward"
    /\ s_refreshed = TRUE
    /\ IdleNumber

NextNumber == number_async_setup_entry

SpecNumber == InitNumber /\ [][NextNumber]_vars

(* C6: the number platform gives async_add_entities exactly one
   temperature-offset entity for each device of coordinator.data.devices
   whose device_type is VA04 or SU04, and none for any other device. *)
C6_OffsetEntities ==
    n_added =>
        LET devices == hass_data[entries[1].entry_id].data.devices IN
        /\ \A i \in 1..Len(devices) :
              Cardinality({j \in 1..Len(entities) :
                  entities[j].device_serial = devices[i].serial_number}) =
              IF devices[i].device_type \in {"VA04", "SU04"} THEN 1 ELSE 0
        /\ \A j \in 1..Len(entities) :
              \E i \in 1..Len(devices) :
                  entities[j].device_serial = devices[i].serial_number

(* entities were added for some devices of the home and not for others *)
C6_Witness ==
    /\ n_added
    /\ Len(entities) >= 1
    /\ Len(entities) < Len(hass_data[entries[1].entry_id].data.devices)
=============================================================================
